---- MODULE Spec2Model ----
(***************************************************************************)
(* Model of src/src/main.cpp: the shader build (loadShaderSource,          *)
(* compileShader, linkProgram), the geometry setup, the render loop and    *)
(* the cleanup of main(), together with the part of the GL / GLFW state    *)
(* that these calls read and write.                                        *)
(*                                                                         *)
(* The float offsets are counted in units of 2^-30, in which the literal    *)
(* 0.01f of the source is the integer OffsetStep, and float + and - round  *)
(* to a 24-bit significand as IEEE binary32 does.  Vertex coordinates are  *)
(* counted in units of 0.01; wall-clock time is counted in ticks.          *)
(***************************************************************************)
EXTENDS Integers, Sequences, FiniteSets, TLC

\* ------------------------------------------------------------------ bounds
\* the loop is explored with offsets of -MaxOffset..MaxOffset steps
MaxOffset == 1
\* the input step is explored after a key was held for up to this many frames
MaxHeldFrames == 24
\* the wall clock is explored up to this many ticks after the start
MaxElapsed == 3
\* a frame lasts 1..MaxDt ticks
MaxDt == 2
\* at most this many keys are down at the same time
MaxKeysHeld == 2

\* ------------------------------------------------------- program constants
\* 0.01f, the per-frame offset increment (main.cpp:352): the binary32
\* nearest to 0.01 is 10737418 * 2^-30
OffsetStep == 10737418
\* third argument of glDrawElements (main.cpp:415)
DrawCount == 3
\* second argument of glVertexAttribPointer (main.cpp:295)
AttribSize == 2
\* stride, 2 * sizeof(float) (main.cpp:298)
AttribStride == 8

\* float vertices[] (main.cpp:234-243), in units of 0.01
vertices == <<-25, -25, 0, 25, 25, -25>>
\* an index array whose last entry names a vertex that does not exist
indices_PastLastVertex == <<0, 1, 3>>
\* unsigned int indices[] (main.cpp:246-248)
indices == <<0, 1, 2>>

VertexPath == "shaders/vertex.glsl"
FragmentPath == "shaders/fragment.glsl"

\* ------------------------------------------------------------ environment
\* keys the window reports: the four directional keys read by the loop, a
\* modifier key and a pause key (neither is read by main.cpp)
Keys == {"left", "right", "up", "down", "shift", "pause"}
KeySets == {K \in SUBSET Keys : Cardinality(K) <= MaxKeysHeld}
OffsetRange == {k * OffsetStep : k \in (0 - MaxOffset) .. MaxOffset}
\* what a shader file on disk can be: absent, or text that is or is not GLSL
FileStates == {"missing", "bad", "ok"}

\* ------------------------------------------------------- float arithmetic
Abs(v) == IF v < 0 THEN 0 - v ELSE v

\* spacing of the binary32 values at magnitude m: 24 significant bits
RECURSIVE Ulp(_)
Ulp(m) == IF m < 16777216 THEN 1 ELSE 2 * Ulp(m \div 2)

\* the binary32 nearest to v, ties to the even significand
FloatRound(v) ==
    LET m == Abs(v)
        u == Ulp(m)
        q == m \div u
        r == m % u
        up == (2 * r > u) \/ (2 * r = u /\ q % 2 = 1)
        n == (IF up THEN q + 1 ELSE q) * u
    IN  IF v < 0 THEN 0 - n ELSE n

\* a + b and a - b on float operands (main.cpp:352, 356, 362, 366)
FloatAdd(a, b) == FloatRound(a + b)
FloatSub(a, b) == FloatRound(a - b)

VARIABLES
    pc,              \* position of main()
    exitStatus,      \* value returned by main()
    stderr,          \* lines written to std::cerr
    calls,           \* library calls made since the last loop test (or the start)
    glfw,            \* "uninit" | "init" | "terminated"
    window,          \* "none" | "open" | "destroyed"
    glLoaded,        \* gladLoadGL() succeeded
    vaos,            \* vertex array objects: name -> [ebo, attrib0]
    buffers,         \* buffer objects: name -> [data]
    boundVAO,        \* GL_VERTEX_ARRAY_BINDING
    boundArrayBuffer,\* GL_ARRAY_BUFFER_BINDING
    shaders,         \* shader objects: name -> record
    programs,        \* program objects: name -> record
    currentProgram,  \* GL_CURRENT_PROGRAM
    VAO, VBO, EBO,   \* locals of main()
    vertexSrc, fragmentSrc,
    vertexShader, fragmentShader, shaderProgram,
    xOffset, yOffset,
    keys,            \* key state cached by the window (glfwGetKey reads it)
    shouldClose,     \* the window's close flag
    elapsed,         \* ticks the previous frame took
    paused           \* parity of the pause-key presses delivered so far

vars == <<pc, exitStatus, stderr, calls, glfw, window, glLoaded, vaos, buffers,
          boundVAO, boundArrayBuffer, shaders, programs, currentProgram,
          VAO, VBO, EBO, vertexSrc, fragmentSrc, vertexShader, fragmentShader,
          shaderProgram, xOffset, yOffset, keys, shouldClose, elapsed, paused>>

glfwVars == <<glfw, window, glLoaded>>
geomVars == <<vaos, buffers, boundVAO, boundArrayBuffer>>
shaderVars == <<shaders, programs, currentProgram>>
geomLocals == <<VAO, VBO, EBO>>
shaderLocals == <<vertexSrc, fragmentSrc, vertexShader, fragmentShader, shaderProgram>>
offsetVars == <<xOffset, yOffset>>
envVars == <<keys, shouldClose, elapsed, paused>>

\* ---------------------------------------------------------------- helpers
Call(fn, args) == [fn |-> fn, args |-> args]

\* one line on std::cerr: the fixed text and what is streamed after it
Diag(msg, detail) == [msg |-> msg, detail |-> detail]

\* the name a glGen* / glCreate* call hands out: the smallest unused one
FreshName(used) == CHOOSE n \in 1..(Cardinality(used) + 1) :
                      /\ n \notin used
                      /\ \A m \in 1..(n - 1) : m \in used

\* shader and program objects share one name space
ShaderNames == DOMAIN shaders \cup DOMAIN programs

NoAttrib == [declared |-> FALSE, enabled |-> FALSE, buffer |-> 0,
             size |-> 0, stride |-> 0, offset |-> 0]

Init ==
    /\ pc = "glfwInit"
    /\ exitStatus = 0
    /\ stderr = <<>>
    /\ calls = <<>>
    /\ glfw = "uninit"
    /\ window = "none"
    /\ glLoaded = FALSE
    /\ vaos = <<>>
    /\ buffers = <<>>
    /\ boundVAO = 0
    /\ boundArrayBuffer = 0
    /\ shaders = <<>>
    /\ programs = <<>>
    /\ currentProgram = 0
    /\ VAO = 0 /\ VBO = 0 /\ EBO = 0
    /\ vertexSrc = "" /\ fragmentSrc = ""
    /\ vertexShader = 0 /\ fragmentShader = 0 /\ shaderProgram = 0
    \* float xOffset, yOffset; have no initializer: their values are indeterminate
    /\ xOffset \in OffsetRange
    /\ yOffset \in OffsetRange
    /\ keys = {}
    /\ shouldClose = FALSE
    /\ elapsed = 1
    /\ paused = FALSE

\* --------------------------------------------------------------- start-up
\* if(!glfwInit()) { cerr; return -1; }
GlfwInit ==
    /\ pc = "glfwInit"
    /\ \E ok \in BOOLEAN :
         IF ok
         THEN /\ glfw' = "init"
              /\ pc' = "createWindow"
              /\ UNCHANGED <<stderr, exitStatus>>
         ELSE /\ stderr' = Append(stderr, Diag("Failed to initialize GLFW. Exiting", ""))
              /\ exitStatus' = -1
              /\ pc' = "done"
              /\ UNCHANGED glfw
    /\ calls' = Append(calls, Call("glfwInit", <<>>))
    /\ UNCHANGED <<window, glLoaded, geomVars, shaderVars, geomLocals,
                   shaderLocals, offsetVars, envVars>>

\* glfwCreateWindow whose failure path returns without glfwTerminate
CreateWindow_NoTerminate ==
    /\ pc = "createWindow"
    /\ \E ok \in BOOLEAN :
         IF ok
         THEN /\ window' = "open"
              /\ pc' = "makeCurrent"
              /\ UNCHANGED <<stderr, exitStatus>>
         ELSE /\ stderr' = Append(stderr, Diag("Failed to create GLFW window", ""))
              /\ exitStatus' = -1
              /\ pc' = "done"
              /\ UNCHANGED window
    /\ calls' = Append(calls, Call("glfwCreateWindow", <<>>))
    /\ UNCHANGED <<glfw, glLoaded, geomVars, shaderVars, geomLocals,
                   shaderLocals, offsetVars, envVars>>

\* window hints, glfwCreateWindow; on failure cerr, glfwTerminate, return -1
CreateWindow ==
    /\ pc = "createWindow"
    /\ \E ok \in BOOLEAN :
         IF ok
         THEN /\ window' = "open"
              /\ pc' = "makeCurrent"
              /\ calls' = Append(calls, Call("glfwCreateWindow", <<>>))
              /\ UNCHANGED <<stderr, exitStatus, glfw>>
         ELSE /\ stderr' = Append(stderr, Diag("Failed to create GLFW window", ""))
              /\ glfw' = "terminated"
              /\ exitStatus' = -1
              /\ pc' = "done"
              /\ calls' = calls \o <<Call("glfwCreateWindow", <<>>),
                                     Call("glfwTerminate", <<>>)>>
              /\ UNCHANGED window
    /\ UNCHANGED <<glLoaded, geomVars, shaderVars, geomLocals, shaderLocals,
                   offsetVars, envVars>>

\* glfwSetFramebufferSizeCallback, glfwMakeContextCurrent
MakeContextCurrent ==
    /\ pc = "makeCurrent"
    /\ pc' = "loadGL"
    /\ calls' = calls \o <<Call("glfwSetFramebufferSizeCallback", <<>>),
                           Call("glfwMakeContextCurrent", <<>>)>>
    /\ UNCHANGED <<exitStatus, stderr, glfwVars, geomVars, shaderVars,
                   geomLocals, shaderLocals, offsetVars, envVars>>

\* gladLoadGL whose failure is reported but not returned from
LoadGL_NoReturn ==
    /\ pc = "loadGL"
    /\ \E ok \in BOOLEAN :
         IF ok
         THEN /\ glLoaded' = TRUE
              /\ UNCHANGED stderr
         ELSE /\ stderr' = Append(stderr, Diag("Failed to initialize GLAD", ""))
              /\ UNCHANGED glLoaded
    /\ pc' = "clearColor"
    /\ calls' = Append(calls, Call("gladLoadGL", <<>>))
    /\ UNCHANGED <<exitStatus, glfw, window, geomVars, shaderVars, geomLocals,
                   shaderLocals, offsetVars, envVars>>

\* if(!gladLoadGL()) { cerr; glfwDestroyWindow; glfwTerminate; return -1; }
LoadGL ==
    /\ pc = "loadGL"
    /\ \E ok \in BOOLEAN :
         IF ok
         THEN /\ glLoaded' = TRUE
              /\ pc' = "clearColor"
              /\ calls' = Append(calls, Call("gladLoadGL", <<>>))
              /\ UNCHANGED <<stderr, exitStatus, glfw, window>>
         ELSE /\ stderr' = Append(stderr, Diag("Failed to initialize GLAD", ""))
              /\ window' = "destroyed"
              /\ glfw' = "terminated"
              /\ exitStatus' = -1
              /\ pc' = "done"
              /\ calls' = calls \o <<Call("gladLoadGL", <<>>),
                                     Call("glfwDestroyWindow", <<>>),
                                     Call("glfwTerminate", <<>>)>>
              /\ UNCHANGED glLoaded
    /\ UNCHANGED <<geomVars, shaderVars, geomLocals, shaderLocals,
                   offsetVars, envVars>>

\* glClearColor(0.2f, 0.3f, 0.3f, 1.0f)
ClearColor ==
    /\ pc = "clearColor"
    /\ pc' = "genVAO"
    /\ calls' = Append(calls, Call("glClearColor", <<>>))
    /\ UNCHANGED <<exitStatus, stderr, glfwVars, geomVars, shaderVars,
                   geomLocals, shaderLocals, offsetVars, envVars>>

\* --------------------------------------------------------- geometry setup
Remove(f, n) == [m \in (DOMAIN f) \ {n} |-> f[m]]

\* glBufferData(target, ...): stores data in the buffer bound to the target;
\* the element-array binding belongs to the bound vertex array object
BufferBoundTo(target) ==
    IF target = "GL_ARRAY_BUFFER" THEN boundArrayBuffer
    ELSE IF boundVAO \in DOMAIN vaos THEN vaos[boundVAO].ebo ELSE 0

glBufferData(target, data) ==
    LET b == BufferBoundTo(target) IN
    /\ buffers' = IF b \in DOMAIN buffers
                  THEN [buffers EXCEPT ![b] = [data |-> data, uploaded |-> TRUE]]
                  ELSE buffers
    /\ UNCHANGED <<vaos, boundVAO, boundArrayBuffer>>

glBindBuffer(target, name) ==
    /\ IF target = "GL_ARRAY_BUFFER"
       THEN /\ boundArrayBuffer' = name
            /\ UNCHANGED vaos
       ELSE /\ vaos' = IF boundVAO \in DOMAIN vaos
                       THEN [vaos EXCEPT ![boundVAO].ebo = name]
                       ELSE vaos
            /\ UNCHANGED boundArrayBuffer
    /\ UNCHANGED <<buffers, boundVAO>>

\* unsigned int VAO; glGenVertexArrays(1, &VAO);
GenVertexArrays ==
    /\ pc = "genVAO"
    /\ LET n == FreshName(DOMAIN vaos) IN
         /\ VAO' = n
         /\ vaos' = vaos @@ (n :> [ebo |-> 0, attrib0 |-> NoAttrib])
         /\ calls' = Append(calls, Call("glGenVertexArrays", <<n>>))
    /\ pc' = "bindVAO"
    /\ UNCHANGED <<exitStatus, stderr, glfwVars, buffers, boundVAO,
                   boundArrayBuffer, shaderVars, VBO, EBO, shaderLocals,
                   offsetVars, envVars>>

\* glBindVertexArray(VAO);
BindVertexArraySetup ==
    /\ pc = "bindVAO"
    /\ boundVAO' = VAO
    /\ calls' = Append(calls, Call("glBindVertexArray", <<VAO>>))
    /\ pc' = "genVBO"
    /\ UNCHANGED <<exitStatus, stderr, glfwVars, vaos, buffers,
                   boundArrayBuffer, shaderVars, geomLocals, shaderLocals,
                   offsetVars, envVars>>

\* unsigned int VBO; glGenBuffers(1, &VBO);
GenVBO ==
    /\ pc = "genVBO"
    /\ LET n == FreshName(DOMAIN buffers) IN
         /\ VBO' = n
         /\ buffers' = buffers @@ (n :> [data |-> <<>>, uploaded |-> FALSE])
         /\ calls' = Append(calls, Call("glGenBuffers", <<n>>))
    /\ pc' = "bindVBO"
    /\ UNCHANGED <<exitStatus, stderr, glfwVars, vaos, boundVAO,
                   boundArrayBuffer, shaderVars, VAO, EBO, shaderLocals,
                   offsetVars, envVars>>

\* glBindBuffer(GL_ARRAY_BUFFER, VBO);
BindVBO ==
    /\ pc = "bindVBO"
    /\ glBindBuffer("GL_ARRAY_BUFFER", VBO)
    /\ calls' = Append(calls, Call("glBindBuffer", <<VBO>>))
    /\ pc' = "uploadVBO"
    /\ UNCHANGED <<exitStatus, stderr, glfwVars, shaderVars, geomLocals,
                   shaderLocals, offsetVars, envVars>>

\* glBufferData(GL_ARRAY_BUFFER, sizeof(vertices), vertices, GL_STATIC_DRAW);
UploadVBO ==
    /\ pc = "uploadVBO"
    /\ glBufferData("GL_ARRAY_BUFFER", vertices)
    /\ calls' = Append(calls, Call("glBufferData", <<BufferBoundTo("GL_ARRAY_BUFFER")>>))
    /\ pc' = "genEBO"
    /\ UNCHANGED <<exitStatus, stderr, glfwVars, shaderVars, geomLocals,
                   shaderLocals, offsetVars, envVars>>

\* unsigned int EBO; glGenBuffers(1, &EBO);
GenEBO ==
    /\ pc = "genEBO"
    /\ LET n == FreshName(DOMAIN buffers) IN
         /\ EBO' = n
         /\ buffers' = buffers @@ (n :> [data |-> <<>>, uploaded |-> FALSE])
         /\ calls' = Append(calls, Call("glGenBuffers", <<n>>))
    /\ pc' = "bindEBO"
    /\ UNCHANGED <<exitStatus, stderr, glfwVars, vaos, boundVAO,
                   boundArrayBuffer, shaderVars, VAO, VBO, shaderLocals,
                   offsetVars, envVars>>

\* the index buffer bound to GL_ARRAY_BUFFER instead of GL_ELEMENT_ARRAY_BUFFER
BindEBO_ArrayTarget ==
    /\ pc = "bindEBO"
    /\ glBindBuffer("GL_ARRAY_BUFFER", EBO)
    /\ calls' = Append(calls, Call("glBindBuffer", <<EBO>>))
    /\ pc' = "uploadEBO"
    /\ UNCHANGED <<exitStatus, stderr, glfwVars, shaderVars, geomLocals,
                   shaderLocals, offsetVars, envVars>>

\* glBindBuffer(GL_ELEMENT_ARRAY_BUFFER, EBO);
BindEBO ==
    /\ pc = "bindEBO"
    /\ glBindBuffer("GL_ELEMENT_ARRAY_BUFFER", EBO)
    /\ calls' = Append(calls, Call("glBindBuffer", <<EBO>>))
    /\ pc' = "uploadEBO"
    /\ UNCHANGED <<exitStatus, stderr, glfwVars, shaderVars, geomLocals,
                   shaderLocals, offsetVars, envVars>>

\* glBufferData(GL_ELEMENT_ARRAY_BUFFER, sizeof(indices), indices, GL_STATIC_DRAW);
UploadEBO ==
    /\ pc = "uploadEBO"
    /\ glBufferData("GL_ELEMENT_ARRAY_BUFFER", indices)
    /\ calls' = Append(calls, Call("glBufferData", <<BufferBoundTo("GL_ELEMENT_ARRAY_BUFFER")>>))
    /\ pc' = "attribPointer"
    /\ UNCHANGED <<exitStatus, stderr, glfwVars, shaderVars, geomLocals,
                   shaderLocals, offsetVars, envVars>>

\* glVertexAttribPointer(0, 2, GL_FLOAT, GL_FALSE, 2 * sizeof(float), (void*)0):
\* the bound vertex array records the layout and the bound array buffer
VertexAttribPointer ==
    /\ pc = "attribPointer"
    /\ vaos' = IF boundVAO \in DOMAIN vaos
               THEN [vaos EXCEPT ![boundVAO].attrib0 =
                        [@ EXCEPT !.declared = TRUE,
                                  !.buffer = boundArrayBuffer,
                                  !.size = AttribSize,
                                  !.stride = AttribStride,
                                  !.offset = 0]]
               ELSE vaos
    /\ calls' = Append(calls, Call("glVertexAttribPointer", <<0>>))
    /\ pc' = "enableAttrib"
    /\ UNCHANGED <<exitStatus, stderr, glfwVars, buffers, boundVAO,
                   boundArrayBuffer, shaderVars, geomLocals, shaderLocals,
                   offsetVars, envVars>>

\* glEnableVertexAttribArray(0);
EnableVertexAttribArray ==
    /\ pc = "enableAttrib"
    /\ vaos' = IF boundVAO \in DOMAIN vaos
               THEN [vaos EXCEPT ![boundVAO].attrib0.enabled = TRUE]
               ELSE vaos
    /\ calls' = Append(calls, Call("glEnableVertexAttribArray", <<0>>))
    /\ pc' = "loadVertexSrc"
    /\ UNCHANGED <<exitStatus, stderr, glfwVars, buffers, boundVAO,
                   boundArrayBuffer, shaderVars, geomLocals, shaderLocals,
                   offsetVars, envVars>>

\* ------------------------------------------------------------ shader build
\* std::string loadShaderSource(const char* filePath): the text of the file,
\* or "" and a line on cerr when the file cannot be opened
loadShaderSource(filePath, file, ret) ==
    IF file = "missing"
    THEN /\ stderr' = Append(stderr, Diag("Failed to open shader file", filePath))
         /\ ret = ""
    ELSE /\ stderr' = stderr
         /\ ret = file

\* GL_COMPILE_STATUS of a shader whose source is the given text
CompileStatus(source) == source = "ok"

\* compileShader with a guard that returns 0 for an empty source instead of
\* compiling it
compileShader_SkipEmpty(source, shaderType, ret) ==
    LET shader == FreshName(ShaderNames)
        pass == CompileStatus(source)
    IN  IF source = ""
        THEN /\ UNCHANGED <<shaders, calls, stderr>>
             /\ ret = 0
        ELSE /\ shaders' = shaders @@ (shader :>
                             [type |-> shaderType, source |-> source,
                              compileAttempted |-> TRUE, compiled |-> pass,
                              deleteStatus |-> FALSE])
             /\ calls' = calls \o
                         <<Call("glCreateShader", <<shader>>),
                           Call("glShaderSource", <<shader>>),
                           Call("glCompileShader", <<shader>>),
                           Call("glGetShaderiv", <<shader>>)>> \o
                         (IF ~pass THEN <<Call("glGetShaderInfoLog", <<shader>>)>>
                          ELSE <<>>)
             /\ stderr' = IF ~pass
                          THEN Append(stderr, Diag("Shader compilation failed", shaderType))
                          ELSE stderr
             /\ ret = shader

\* GLuint compileShader(const char* source, GLenum shaderType)
compileShader(source, shaderType, ret) ==
    LET shader == FreshName(ShaderNames)
        pass == CompileStatus(source)
    IN  /\ shaders' = shaders @@ (shader :>
                        [type |-> shaderType, source |-> source,
                         compileAttempted |-> TRUE, compiled |-> pass,
                         deleteStatus |-> FALSE])
        /\ calls' = calls \o
                    <<Call("glCreateShader", <<shader>>),
                      Call("glShaderSource", <<shader>>),
                      Call("glCompileShader", <<shader>>),
                      Call("glGetShaderiv", <<shader>>)>> \o
                    (IF ~pass THEN <<Call("glGetShaderInfoLog", <<shader>>)>>
                     ELSE <<>>)
        /\ stderr' = IF ~pass
                     THEN Append(stderr, Diag("Shader compilation failed", shaderType))
                     ELSE stderr
        /\ ret = shader

\* the results glLinkProgram can have for a set of attached shaders: a link
\* fails when a stage is missing or not compiled, and may fail otherwise
LinkOutcomes(attached) ==
    IF /\ \A h \in attached : shaders[h].compiled
       /\ {shaders[h].type : h \in attached} =
              {"GL_VERTEX_SHADER", "GL_FRAGMENT_SHADER"}
    THEN {TRUE, FALSE}
    ELSE {FALSE}

\* linkProgram with an early return on link failure that skips the two
\* glDeleteShader calls
linkProgram_ReturnOnFailure(vs, fs, ret) ==
    LET program == FreshName(ShaderNames)
        attached == {vs, fs} \cap DOMAIN shaders
    IN  \E success \in LinkOutcomes(attached) :
        /\ programs' = programs @@ (program :>
                         [attached |-> attached, linkAttempted |-> TRUE,
                          linked |-> success, deleteStatus |-> FALSE,
                          uniforms |-> [xOffset |-> 0, yOffset |-> 0]])
        /\ shaders' = [h \in DOMAIN shaders |->
                         IF h \in {vs, fs} /\ success
                         THEN [shaders[h] EXCEPT !.deleteStatus = TRUE]
                         ELSE shaders[h]]
        /\ calls' = calls \o
                    <<Call("glCreateProgram", <<program>>),
                      Call("glAttachShader", <<program, vs>>),
                      Call("glAttachShader", <<program, fs>>),
                      Call("glLinkProgram", <<program>>),
                      Call("glGetProgramiv", <<program>>)>> \o
                    (IF ~success THEN <<Call("glGetProgramInfoLog", <<program>>)>>
                     ELSE <<Call("glDeleteShader", <<vs>>),
                            Call("glDeleteShader", <<fs>>)>>)
        /\ stderr' = IF ~success
                     THEN Append(stderr, Diag("Shader linking failed", ""))
                     ELSE stderr
        /\ ret = program

\* linkProgram that attaches and links only when both stages compiled
linkProgram_SkipUncompiled(vs, fs, ret) ==
    LET program == FreshName(ShaderNames)
        ready == \A h \in {vs, fs} \cap DOMAIN shaders : shaders[h].compiled
        attached == IF ready THEN {vs, fs} \cap DOMAIN shaders ELSE {}
    IN  \E success \in (IF ready THEN LinkOutcomes(attached) ELSE {FALSE}) :
        /\ programs' = programs @@ (program :>
                         [attached |-> attached, linkAttempted |-> ready,
                          linked |-> success, deleteStatus |-> FALSE,
                          uniforms |-> [xOffset |-> 0, yOffset |-> 0]])
        /\ shaders' = [h \in DOMAIN shaders |->
                         IF h \in {vs, fs}
                         THEN [shaders[h] EXCEPT !.deleteStatus = TRUE]
                         ELSE shaders[h]]
        /\ calls' = calls \o
                    <<Call("glCreateProgram", <<program>>)>> \o
                    (IF ready
                     THEN <<Call("glAttachShader", <<program, vs>>),
                            Call("glAttachShader", <<program, fs>>),
                            Call("glLinkProgram", <<program>>),
                            Call("glGetProgramiv", <<program>>)>>
                     ELSE <<>>) \o
                    (IF ready /\ ~success
                     THEN <<Call("glGetProgramInfoLog", <<program>>)>>
                     ELSE <<>>) \o
                    <<Call("glDeleteShader", <<vs>>),
                      Call("glDeleteShader", <<fs>>)>>
        /\ stderr' = IF ready /\ ~success
                     THEN Append(stderr, Diag("Shader linking failed", ""))
                     ELSE stderr
        /\ ret = program

\* GLuint linkProgram(GLuint vertexShader, GLuint fragmentShader)
linkProgram(vs, fs, ret) ==
    LET program == FreshName(ShaderNames)
        attached == {vs, fs} \cap DOMAIN shaders
    IN  \E success \in LinkOutcomes(attached) :
        /\ programs' = programs @@ (program :>
                         [attached |-> attached, linkAttempted |-> TRUE,
                          linked |-> success, deleteStatus |-> FALSE,
                          uniforms |-> [xOffset |-> 0, yOffset |-> 0]])
        /\ shaders' = [h \in DOMAIN shaders |->
                         IF h \in {vs, fs}
                         THEN [shaders[h] EXCEPT !.deleteStatus = TRUE]
                         ELSE shaders[h]]
        /\ calls' = calls \o
                    <<Call("glCreateProgram", <<program>>),
                      Call("glAttachShader", <<program, vs>>),
                      Call("glAttachShader", <<program, fs>>),
                      Call("glLinkProgram", <<program>>),
                      Call("glGetProgramiv", <<program>>)>> \o
                    (IF ~success THEN <<Call("glGetProgramInfoLog", <<program>>)>>
                     ELSE <<>>) \o
                    <<Call("glDeleteShader", <<vs>>),
                      Call("glDeleteShader", <<fs>>)>>
        /\ stderr' = IF ~success
                     THEN Append(stderr, Diag("Shader linking failed", ""))
                     ELSE stderr
        /\ ret = program

\* std::string vertexSrc = loadShaderSource("shaders/vertex.glsl");
LoadVertexSrc ==
    /\ pc = "loadVertexSrc"
    /\ \E file \in FileStates : loadShaderSource(VertexPath, file, vertexSrc')
    /\ pc' = "loadFragmentSrc"
    /\ UNCHANGED <<exitStatus, calls, glfwVars, geomVars, shaderVars, geomLocals,
                   fragmentSrc, vertexShader, fragmentShader, shaderProgram,
                   offsetVars, envVars>>

\* std::string fragmentSrc = loadShaderSource("shaders/fragment.glsl");
LoadFragmentSrc ==
    /\ pc = "loadFragmentSrc"
    /\ \E file \in FileStates : loadShaderSource(FragmentPath, file, fragmentSrc')
    /\ pc' = "compileVertex"
    /\ UNCHANGED <<exitStatus, calls, glfwVars, geomVars, shaderVars, geomLocals,
                   vertexSrc, vertexShader, fragmentShader, shaderProgram,
                   offsetVars, envVars>>

\* GLuint vertexShader = compileShader(vertexSrc.c_str(), GL_VERTEX_SHADER);
CompileVertex ==
    /\ pc = "compileVertex"
    /\ compileShader(vertexSrc, "GL_VERTEX_SHADER", vertexShader')
    /\ pc' = "compileFragment"
    /\ UNCHANGED <<exitStatus, glfwVars, geomVars, programs, currentProgram,
                   geomLocals, vertexSrc, fragmentSrc, fragmentShader,
                   shaderProgram, offsetVars, envVars>>

\* GLuint fragmentShader = compileShader(fragmentSrc.c_str(), GL_FRAGMENT_SHADER);
CompileFragment ==
    /\ pc = "compileFragment"
    /\ compileShader(fragmentSrc, "GL_FRAGMENT_SHADER", fragmentShader')
    /\ pc' = "link"
    /\ UNCHANGED <<exitStatus, glfwVars, geomVars, programs, currentProgram,
                   geomLocals, vertexSrc, fragmentSrc, vertexShader,
                   shaderProgram, offsetVars, envVars>>

\* main() returning -1 when the program it got back is not linked
LinkProgram_ExitOnFailure ==
    /\ pc = "link"
    /\ linkProgram(vertexShader, fragmentShader, shaderProgram')
    /\ IF programs'[shaderProgram'].linked
       THEN /\ pc' = "loopTest"
            /\ UNCHANGED exitStatus
       ELSE /\ pc' = "done"
            /\ exitStatus' = -1
    /\ UNCHANGED <<glfwVars, geomVars, currentProgram, geomLocals,
                   vertexSrc, fragmentSrc, vertexShader, fragmentShader,
                   offsetVars, envVars>>

\* GLuint shaderProgram = linkProgram(vertexShader, fragmentShader);
LinkProgram ==
    /\ pc = "link"
    /\ linkProgram(vertexShader, fragmentShader, shaderProgram')
    /\ pc' = "loopTest"
    /\ UNCHANGED <<exitStatus, glfwVars, geomVars, currentProgram, geomLocals,
                   vertexSrc, fragmentSrc, vertexShader, fragmentShader,
                   offsetVars, envVars>>

\* -------------------------------------------------------------- render loop
\* a loop whose test never ends it
LoopTest_NoExit ==
    /\ pc = "loopTest"
    /\ calls' = <<Call("glfwWindowShouldClose", <<>>)>>
    /\ pc' = "clear"
    /\ UNCHANGED <<exitStatus, stderr, glfwVars, geomVars, shaderVars,
                   geomLocals, shaderLocals, offsetVars, envVars>>

\* while (!glfwWindowShouldClose(window))
LoopTest ==
    /\ pc = "loopTest"
    /\ calls' = <<Call("glfwWindowShouldClose", <<>>)>>
    /\ pc' = IF shouldClose THEN "deleteVBO" ELSE "clear"
    /\ UNCHANGED <<exitStatus, stderr, glfwVars, geomVars, shaderVars,
                   geomLocals, shaderLocals, offsetVars, envVars>>

\* glClear(GL_COLOR_BUFFER_BIT);
Clear ==
    /\ pc = "clear"
    /\ calls' = Append(calls, Call("glClear", <<>>))
    /\ pc' = "pollLeft"
    /\ UNCHANGED <<exitStatus, stderr, glfwVars, geomVars, shaderVars,
                   geomLocals, shaderLocals, offsetVars, envVars>>

\* glfwGetKey(window, key) == GLFW_PRESS
glfwGetKey(key) == key \in keys

\* if(glfwGetKey(window, GLFW_KEY_LEFT) == GLFW_PRESS) xOffset = xOffset - 0.01f;
PollLeft ==
    /\ pc = "pollLeft"
    /\ xOffset' = IF glfwGetKey("left") THEN FloatSub(xOffset, OffsetStep) ELSE xOffset
    /\ calls' = Append(calls, Call("glfwGetKey(GLFW_KEY_LEFT)", <<>>))
    /\ pc' = "pollRight"
    /\ UNCHANGED <<exitStatus, stderr, glfwVars, geomVars, shaderVars,
                   geomLocals, shaderLocals, yOffset, envVars>>

\* the right key read only when the left key is up (else if)
PollRight_ElseIf ==
    /\ pc = "pollRight"
    /\ xOffset' = IF glfwGetKey("right") /\ ~glfwGetKey("left")
                  THEN FloatAdd(xOffset, OffsetStep) ELSE xOffset
    /\ calls' = Append(calls, Call("glfwGetKey(GLFW_KEY_RIGHT)", <<>>))
    /\ pc' = "pollUp"
    /\ UNCHANGED <<exitStatus, stderr, glfwVars, geomVars, shaderVars,
                   geomLocals, shaderLocals, yOffset, envVars>>

\* if(glfwGetKey(window, GLFW_KEY_RIGHT) == GLFW_PRESS) xOffset = xOffset + 0.01f;
PollRight ==
    /\ pc = "pollRight"
    /\ xOffset' = IF glfwGetKey("right") THEN FloatAdd(xOffset, OffsetStep) ELSE xOffset
    /\ calls' = Append(calls, Call("glfwGetKey(GLFW_KEY_RIGHT)", <<>>))
    /\ pc' = "pollUp"
    /\ UNCHANGED <<exitStatus, stderr, glfwVars, geomVars, shaderVars,
                   geomLocals, shaderLocals, yOffset, envVars>>

\* the up key adding to xOffset instead of yOffset
PollUp_WritesX ==
    /\ pc = "pollUp"
    /\ xOffset' = IF glfwGetKey("up") THEN FloatAdd(xOffset, OffsetStep) ELSE xOffset
    /\ calls' = Append(calls, Call("glfwGetKey(GLFW_KEY_UP)", <<>>))
    /\ pc' = "pollDown"
    /\ UNCHANGED <<exitStatus, stderr, glfwVars, geomVars, shaderVars,
                   geomLocals, shaderLocals, yOffset, envVars>>

\* if(glfwGetKey(window, GLFW_KEY_UP) == GLFW_PRESS) yOffset = yOffset + 0.01f;
PollUp ==
    /\ pc = "pollUp"
    /\ yOffset' = IF glfwGetKey("up") THEN FloatAdd(yOffset, OffsetStep) ELSE yOffset
    /\ calls' = Append(calls, Call("glfwGetKey(GLFW_KEY_UP)", <<>>))
    /\ pc' = "pollDown"
    /\ UNCHANGED <<exitStatus, stderr, glfwVars, geomVars, shaderVars,
                   geomLocals, shaderLocals, xOffset, envVars>>

\* if(glfwGetKey(window, GLFW_KEY_DOWN) == GLFW_PRESS) yOffset = yOffset - 0.01f;
PollDown ==
    /\ pc = "pollDown"
    /\ yOffset' = IF glfwGetKey("down") THEN FloatSub(yOffset, OffsetStep) ELSE yOffset
    /\ calls' = Append(calls, Call("glfwGetKey(GLFW_KEY_DOWN)", <<>>))
    /\ pc' = "useProgram"
    /\ UNCHANGED <<exitStatus, stderr, glfwVars, geomVars, shaderVars,
                   geomLocals, shaderLocals, xOffset, envVars>>

\* a program can be made current only after a successful link
Usable(program) == program \in DOMAIN programs /\ programs[program].linked

\* glUseProgram given the vertex shader's handle: an invalid operation that
\* leaves the current program as it was
UseProgram_Stage ==
    /\ pc = "useProgram"
    /\ calls' = Append(calls, Call("glUseProgram", <<vertexShader>>))
    /\ pc' = "uploadX"
    /\ UNCHANGED <<exitStatus, stderr, glfwVars, geomVars, shaderVars,
                   geomLocals, shaderLocals, offsetVars, envVars>>

\* glUseProgram(shaderProgram);
UseProgram ==
    /\ pc = "useProgram"
    /\ currentProgram' = IF Usable(shaderProgram) THEN shaderProgram
                         ELSE currentProgram
    /\ calls' = Append(calls, Call("glUseProgram", <<shaderProgram>>))
    /\ pc' = "uploadX"
    /\ UNCHANGED <<exitStatus, stderr, glfwVars, geomVars, shaders, programs,
                   geomLocals, shaderLocals, offsetVars, envVars>>

\* glGetUniformLocation(program, name): -1 unless the program is linked
glGetUniformLocation(program, name) ==
    IF Usable(program) THEN (IF name = "xOffset" THEN 0 ELSE 1) ELSE -1

\* the location is looked up but the value is not sent
UploadUniform_LookupOnly(program, name, value) ==
    /\ programs' = programs
    /\ calls' = calls \o <<Call("glGetUniformLocation", <<program>>),
                           Call("glUniform1f", <<>>)>>

\* glUniform1f(glGetUniformLocation(program, name), value): sets the uniform of
\* the current program; location -1 is ignored
UploadUniform(program, name, value) ==
    LET location == glGetUniformLocation(program, name) IN
    /\ programs' = IF location # -1 /\ currentProgram \in DOMAIN programs
                   THEN [programs EXCEPT ![currentProgram].uniforms[name] = value]
                   ELSE programs
    /\ calls' = calls \o <<Call("glGetUniformLocation", <<program>>),
                           Call("glUniform1f", <<>>)>>

\* glUniform1f(glGetUniformLocation(shaderProgram, "xOffset"), xOffset);
UploadXOffset ==
    /\ pc = "uploadX"
    /\ UploadUniform(shaderProgram, "xOffset", xOffset)
    /\ pc' = "uploadY"
    /\ UNCHANGED <<exitStatus, stderr, glfwVars, geomVars, shaders,
                   currentProgram, geomLocals, shaderLocals, offsetVars, envVars>>

\* the loop without its glBindVertexArray: the draw follows the uploads
UploadYOffset_NoRebind ==
    /\ pc = "uploadY"
    /\ UploadUniform(shaderProgram, "yOffset", yOffset)
    /\ pc' = "draw"
    /\ UNCHANGED <<exitStatus, stderr, glfwVars, geomVars, shaders,
                   currentProgram, geomLocals, shaderLocals, offsetVars, envVars>>

\* glUniform1f(glGetUniformLocation(shaderProgram, "yOffset"), yOffset);
UploadYOffset ==
    /\ pc = "uploadY"
    /\ UploadUniform(shaderProgram, "yOffset", yOffset)
    /\ pc' = "bindVAODraw"
    /\ UNCHANGED <<exitStatus, stderr, glfwVars, geomVars, shaders,
                   currentProgram, geomLocals, shaderLocals, offsetVars, envVars>>

\* the vertex data uploaded again in every frame before the draw
BindVertexArrayDraw_Reupload ==
    /\ pc = "bindVAODraw"
    /\ boundVAO' = VAO
    /\ buffers' = IF boundArrayBuffer \in DOMAIN buffers
                  THEN [buffers EXCEPT ![boundArrayBuffer] =
                                          [data |-> vertices, uploaded |-> TRUE]]
                  ELSE buffers
    /\ calls' = calls \o <<Call("glBindVertexArray", <<VAO>>),
                           Call("glBufferData", <<boundArrayBuffer>>)>>
    /\ pc' = "draw"
    /\ UNCHANGED <<exitStatus, stderr, glfwVars, vaos, boundArrayBuffer,
                   shaderVars, geomLocals, shaderLocals, offsetVars, envVars>>

\* glBindVertexArray(VAO);
BindVertexArrayDraw ==
    /\ pc = "bindVAODraw"
    /\ boundVAO' = VAO
    /\ calls' = Append(calls, Call("glBindVertexArray", <<VAO>>))
    /\ pc' = "draw"
    /\ UNCHANGED <<exitStatus, stderr, glfwVars, vaos, buffers,
                   boundArrayBuffer, shaderVars, geomLocals, shaderLocals,
                   offsetVars, envVars>>

\* glDrawElements(GL_TRIANGLES, 3, GL_UNSIGNED_INT, 0);
DrawElements ==
    /\ pc = "draw"
    /\ calls' = Append(calls, Call("glDrawElements", <<DrawCount>>))
    /\ pc' = "swap"
    /\ UNCHANGED <<exitStatus, stderr, glfwVars, geomVars, shaderVars,
                   geomLocals, shaderLocals, offsetVars, envVars>>

\* glfwSwapBuffers(window); the frame has then taken 1..MaxDt ticks
SwapBuffers ==
    /\ pc = "swap"
    /\ \E dt \in 1..MaxDt : elapsed' = dt
    /\ calls' = Append(calls, Call("glfwSwapBuffers", <<>>))
    /\ pc' = "pollEvents"
    /\ UNCHANGED <<exitStatus, stderr, glfwVars, geomVars, shaderVars,
                   geomLocals, shaderLocals, offsetVars, keys, shouldClose,
                   paused>>

\* what one frame's polling of the key set K makes of the offsets x and y:
\* left is read before right, up before down
PolledX(K, x) ==
    LET afterLeft == IF "left" \in K THEN FloatSub(x, OffsetStep) ELSE x
    IN  IF "right" \in K THEN FloatAdd(afterLeft, OffsetStep) ELSE afterLeft
PolledY(K, y) ==
    LET afterUp == IF "up" \in K THEN FloatAdd(y, OffsetStep) ELSE y
    IN  IF "down" \in K THEN FloatSub(afterUp, OffsetStep) ELSE afterUp

\* the key sets the window may report next: those that keep the offsets in the
\* explored range
NextKeySets ==
    {K \in KeySets : /\ PolledX(K, xOffset) \in OffsetRange
                     /\ PolledY(K, yOffset) \in OffsetRange}

\* the paused flag of the input state (specification, sections 3 and 4.4): it
\* flips on each press transition of the pause key; main.cpp neither keeps nor
\* reads such a flag
PausedAfter(K) == IF "pause" \in K \ keys THEN ~paused ELSE paused

\* glfwPollEvents(); the window updates its key state and close flag, and runs
\* the framebuffer-size callback (glViewport) when the window was resized
PollEvents ==
    /\ pc = "pollEvents"
    /\ \E K \in NextKeySets, close \in BOOLEAN, resized \in BOOLEAN :
         /\ keys' = K
         /\ shouldClose' = (shouldClose \/ close)
         /\ paused' = PausedAfter(K)
         /\ calls' = calls \o <<Call("glfwPollEvents", <<>>)>> \o
                     (IF resized THEN <<Call("glViewport", <<>>)>> ELSE <<>>)
    /\ pc' = "loopTest"
    /\ UNCHANGED <<exitStatus, stderr, glfwVars, geomVars, shaderVars,
                   geomLocals, shaderLocals, offsetVars, elapsed>>

\* ------------------------------------------------------------------ cleanup
\* glDeleteBuffers(1, &VBO);
DeleteVBO ==
    /\ pc = "deleteVBO"
    /\ buffers' = Remove(buffers, VBO)
    /\ boundArrayBuffer' = IF boundArrayBuffer = VBO THEN 0 ELSE boundArrayBuffer
    /\ calls' = Append(calls, Call("glDeleteBuffers", <<VBO>>))
    /\ pc' = "deleteVAO"
    /\ UNCHANGED <<exitStatus, stderr, glfwVars, vaos, boundVAO, shaderVars,
                   geomLocals, shaderLocals, offsetVars, envVars>>

\* glDeleteVertexArrays(1, &VAO);
DeleteVAO ==
    /\ pc = "deleteVAO"
    /\ vaos' = Remove(vaos, VAO)
    /\ boundVAO' = IF boundVAO = VAO THEN 0 ELSE boundVAO
    /\ calls' = Append(calls, Call("glDeleteVertexArrays", <<VAO>>))
    /\ pc' = "deleteProgram"
    /\ UNCHANGED <<exitStatus, stderr, glfwVars, buffers, boundArrayBuffer,
                   shaderVars, geomLocals, shaderLocals, offsetVars, envVars>>

\* glDeleteProgram(shaderProgram);
DeleteProgram ==
    /\ pc = "deleteProgram"
    /\ programs' = IF shaderProgram \in DOMAIN programs
                   THEN [programs EXCEPT ![shaderProgram].deleteStatus = TRUE]
                   ELSE programs
    /\ calls' = Append(calls, Call("glDeleteProgram", <<shaderProgram>>))
    /\ pc' = "destroyWindow"
    /\ UNCHANGED <<exitStatus, stderr, glfwVars, geomVars, shaders,
                   currentProgram, geomLocals, shaderLocals, offsetVars, envVars>>

\* glfwDestroyWindow(window);
DestroyWindow ==
    /\ pc = "destroyWindow"
    /\ window' = "destroyed"
    /\ calls' = Append(calls, Call("glfwDestroyWindow", <<>>))
    /\ pc' = "terminate"
    /\ UNCHANGED <<exitStatus, stderr, glfw, glLoaded, geomVars, shaderVars,
                   geomLocals, shaderLocals, offsetVars, envVars>>

\* glfwTerminate(); return 0;
Terminate ==
    /\ pc = "terminate"
    /\ glfw' = "terminated"
    /\ exitStatus' = 0
    /\ calls' = Append(calls, Call("glfwTerminate", <<>>))
    /\ pc' = "done"
    /\ UNCHANGED <<stderr, window, glLoaded, geomVars, shaderVars,
                   geomLocals, shaderLocals, offsetVars, envVars>>

Next ==
    \/ GlfwInit
    \/ CreateWindow
    \/ MakeContextCurrent
    \/ LoadGL
    \/ ClearColor
    \/ GenVertexArrays
    \/ BindVertexArraySetup
    \/ GenVBO
    \/ BindVBO
    \/ UploadVBO
    \/ GenEBO
    \/ BindEBO
    \/ UploadEBO
    \/ VertexAttribPointer
    \/ EnableVertexAttribArray
    \/ LoadVertexSrc
    \/ LoadFragmentSrc
    \/ CompileVertex
    \/ CompileFragment
    \/ LinkProgram
    \/ LoopTest
    \/ Clear
    \/ PollLeft
    \/ PollRight
    \/ PollUp
    \/ PollDown
    \/ UseProgram
    \/ UploadXOffset
    \/ UploadYOffset
    \/ BindVertexArrayDraw
    \/ DrawElements
    \/ SwapBuffers
    \/ PollEvents
    \/ DeleteVBO
    \/ DeleteVAO
    \/ DeleteProgram
    \/ DestroyWindow
    \/ Terminate

Spec == Init /\ [][Next]_vars

\* main() is a sequential program whose library calls all return: it keeps
\* taking steps until it has returned
FairSpec == Spec /\ WF_vars(Next)

\* ------------------------------------------------- the input step by itself
\* the offset after a directional key was held for k frames, counted from 0
RECURSIVE HeldLeft(_)
HeldLeft(k) == IF k = 0 THEN 0 ELSE FloatSub(HeldLeft(k - 1), OffsetStep)
RECURSIVE HeldRight(_)
HeldRight(k) == IF k = 0 THEN 0 ELSE FloatAdd(HeldRight(k - 1), OffsetStep)
HeldOffsets == {HeldLeft(k) : k \in 0..MaxHeldFrames} \cup
               {HeldRight(k) : k \in 0..MaxHeldFrames}

\* a later frame of a run whose setup succeeded, at the first key poll: the
\* objects are those the setup created, the offsets are those some earlier
\* frames left behind, the uniforms hold what the previous frame uploaded (the
\* offsets as they stand), and any key set may be down
InputInit ==
    /\ pc = "pollLeft"
    /\ exitStatus = 0
    /\ stderr = <<>>
    /\ calls = <<Call("glfwWindowShouldClose", <<>>), Call("glClear", <<>>)>>
    /\ glfw = "init"
    /\ window = "open"
    /\ glLoaded = TRUE
    /\ VAO = 1 /\ VBO = 1 /\ EBO = 2
    /\ vaos = (1 :> [ebo |-> 2,
                     attrib0 |-> [declared |-> TRUE, enabled |-> TRUE,
                                  buffer |-> 1, size |-> AttribSize,
                                  stride |-> AttribStride, offset |-> 0]])
    /\ buffers = (1 :> [data |-> vertices, uploaded |-> TRUE]) @@
                 (2 :> [data |-> indices, uploaded |-> TRUE])
    /\ boundVAO = 1
    /\ boundArrayBuffer = 1
    /\ vertexSrc = "ok" /\ fragmentSrc = "ok"
    /\ vertexShader = 1 /\ fragmentShader = 2 /\ shaderProgram = 3
    /\ shaders = (1 :> [type |-> "GL_VERTEX_SHADER", source |-> "ok",
                        compileAttempted |-> TRUE, compiled |-> TRUE,
                        deleteStatus |-> TRUE]) @@
                 (2 :> [type |-> "GL_FRAGMENT_SHADER", source |-> "ok",
                        compileAttempted |-> TRUE, compiled |-> TRUE,
                        deleteStatus |-> TRUE])
    /\ xOffset \in HeldOffsets
    /\ yOffset \in HeldOffsets
    /\ programs = (3 :> [attached |-> {1, 2}, linkAttempted |-> TRUE,
                         linked |-> TRUE, deleteStatus |-> FALSE,
                         uniforms |-> [xOffset |-> xOffset, yOffset |-> yOffset]])
    /\ currentProgram = 3
    /\ keys \in KeySets
    /\ shouldClose = FALSE
    /\ elapsed = 1
    /\ paused = FALSE

InputNext == PollLeft \/ PollRight \/ PollUp \/ PollDown

InputSpec == InputInit /\ [][InputNext]_vars

\* ================================================================ properties
Range(seq) == {seq[i] : i \in DOMAIN seq}

\* the calls whose arguments are shader or program names
ShaderObjectCalls ==
    {"glCreateShader", "glShaderSource", "glCompileShader", "glGetShaderiv",
     "glGetShaderInfoLog", "glCreateProgram", "glAttachShader", "glLinkProgram",
     "glGetProgramiv", "glGetProgramInfoLog", "glDeleteShader", "glUseProgram",
     "glGetUniformLocation", "glDeleteProgram"}

\* call i of the log passes the name h to a shader/program call
Passes(i, h) == calls[i].fn \in ShaderObjectCalls /\ h \in Range(calls[i].args)

\* every call of the log that passes h is the glDeleteShader(h) call or comes
\* before it
NotUsedAfterDelete(h) ==
    \A i \in DOMAIN calls :
        Passes(i, h) =>
            \E j \in i..Len(calls) : calls[j] = Call("glDeleteShader", <<h>>)

\* C1: once linkProgram has returned (shaderProgram is set), for a successful
\* and for a failed link alike, glDeleteShader has been called on both stage
\* handles, and no later call passes either handle to the graphics library.
C1_StageHandlesDeleted ==
    shaderProgram # 0 =>
        /\ shaders[vertexShader].deleteStatus
        /\ shaders[fragmentShader].deleteStatus
        /\ NotUsedAfterDelete(vertexShader)
        /\ NotUsedAfterDelete(fragmentShader)

\* a frame has been drawn with a program whose link failed, the stage handles
\* being deleted
C1_Witness ==
    /\ pc = "swap"
    /\ shaderProgram # 0
    /\ ~programs[shaderProgram].linked
    /\ shaders[vertexShader].deleteStatus
    /\ shaders[fragmentShader].deleteStatus

\* C2: when the program is about to destroy the window on its normal exit path,
\* the vertex buffer, the index buffer, the vertex array object and the program
\* created during setup have all been deleted.
C2_AllResourcesReleased ==
    pc = "destroyWindow" =>
        /\ VBO \notin DOMAIN buffers
        /\ EBO \notin DOMAIN buffers
        /\ VAO \notin DOMAIN vaos
        /\ programs[shaderProgram].deleteStatus

\* the log still holds the calls made since the start of main()
InSetup == calls # <<>> /\ calls[1].fn = "glfwInit"

IsPrefix(a, b) == Len(a) <= Len(b) /\ a = SubSeq(b, 1, Len(a))

GeometryCalls ==
    {"glGenVertexArrays", "glBindVertexArray", "glGenBuffers", "glBindBuffer",
     "glBufferData", "glVertexAttribPointer", "glEnableVertexAttribArray"}

\* the geometry calls of the log, in the order they were made
GeometryLog == SelectSeq(calls, LAMBDA c : c.fn \in GeometryCalls)

GeometryOrder ==
    <<Call("glGenVertexArrays", <<VAO>>), Call("glBindVertexArray", <<VAO>>),
      Call("glGenBuffers", <<VBO>>), Call("glBindBuffer", <<VBO>>),
      Call("glBufferData", <<VBO>>),
      Call("glGenBuffers", <<EBO>>), Call("glBindBuffer", <<EBO>>),
      Call("glBufferData", <<EBO>>),
      Call("glVertexAttribPointer", <<0>>),
      Call("glEnableVertexAttribArray", <<0>>)>>

\* C3: during setup the geometry calls come in the fixed order (descriptor
\* generated and bound; vertex buffer generated, bound, uploaded; index buffer
\* generated, bound, uploaded; layout of slot 0 declared; slot 0 enabled); when
\* the layout is about to be declared the vertex buffer is the bound array
\* buffer and the descriptor the bound descriptor, both buffers holding their
\* data; the declared layout refers to the vertex buffer; the slot is enabled
\* only once declared.
C3_GeometrySetupOrder ==
    /\ InSetup => IsPrefix(GeometryLog, GeometryOrder)
    /\ pc = "attribPointer" =>
          /\ boundVAO = VAO /\ VAO # 0
          /\ boundArrayBuffer = VBO /\ VBO # 0
          /\ vaos[VAO].ebo = EBO /\ EBO # 0 /\ EBO # VBO
          /\ buffers[VBO] = [data |-> vertices, uploaded |-> TRUE]
          /\ buffers[EBO] = [data |-> indices, uploaded |-> TRUE]
    /\ \A v \in DOMAIN vaos :
          /\ vaos[v].attrib0.enabled => vaos[v].attrib0.declared
          /\ vaos[v].attrib0.declared =>
                /\ v = VAO
                /\ vaos[v].attrib0 = [declared |-> TRUE,
                                      enabled |-> vaos[v].attrib0.enabled,
                                      buffer |-> VBO, size |-> AttribSize,
                                      stride |-> AttribStride, offset |-> 0]

\* setup has finished: slot 0 is enabled and the shader sources come next
C3_Witness ==
    /\ pc = "loadVertexSrc"
    /\ vaos[VAO].attrib0.enabled
    /\ Len(GeometryLog) = Len(GeometryOrder)

\* the steps of an iteration, in the order of the loop body
FrameOrder ==
    <<"test", "clear", "input", "activate", "upload", "bind", "draw",
      "present", "poll">>

\* the step of an iteration a call belongs to, as its index in FrameOrder
\* (0 for a call that is no part of the loop body)
StepOf(fn) ==
    CASE fn = "glfwWindowShouldClose" -> 1
      [] fn = "glClear" -> 2
      [] fn \in {"glfwGetKey(GLFW_KEY_LEFT)", "glfwGetKey(GLFW_KEY_RIGHT)",
                 "glfwGetKey(GLFW_KEY_UP)", "glfwGetKey(GLFW_KEY_DOWN)"} -> 3
      [] fn = "glUseProgram" -> 4
      [] fn \in {"glGetUniformLocation", "glUniform1f"} -> 5
      [] fn = "glBindVertexArray" -> 6
      [] fn = "glDrawElements" -> 7
      [] fn = "glfwSwapBuffers" -> 8
      [] fn \in {"glfwPollEvents", "glViewport"} -> 9
      [] OTHER -> 0

\* how many steps of the current iteration are done at each position
StepsDoneAt(p) ==
    CASE p = "clear" -> 1
      [] p = "pollLeft" -> 2
      [] p \in {"pollRight", "pollUp", "pollDown", "useProgram"} -> 3
      [] p = "uploadX" -> 4
      [] p \in {"uploadY", "bindVAODraw"} -> 5
      [] p = "draw" -> 6
      [] p = "swap" -> 7
      [] p = "pollEvents" -> 8
      [] OTHER -> 9

InLoop ==
    pc \in {"loopTest", "clear", "pollLeft", "pollRight", "pollUp", "pollDown",
            "useProgram", "uploadX", "uploadY", "bindVAODraw", "draw", "swap",
            "pollEvents"}

\* the calls of the log, a step being a maximal run of calls of one kind, are
\* the first n steps of FrameOrder, once each and in order
RunsFirstSteps(n) ==
    /\ calls # <<>>
    /\ StepOf(calls[1].fn) = 1
    /\ StepOf(calls[Len(calls)].fn) = n
    /\ \A i \in 1..(Len(calls) - 1) :
          \/ StepOf(calls[i + 1].fn) = StepOf(calls[i].fn)
          \/ StepOf(calls[i + 1].fn) = StepOf(calls[i].fn) + 1

\* C4: within an iteration the steps clear, input, activate program, upload,
\* bind descriptor, draw, present, poll events happen once each and in this
\* order: at every position of the loop body the steps done since the loop
\* test are exactly the leading steps of that order up to the position, so a
\* draw is always preceded, in its own iteration, by the activation and the
\* bind.
C4_FrameStepOrder ==
    (InLoop /\ ~InSetup) => RunsFirstSteps(StepsDoneAt(pc))

\* an iteration that polled held keys has run to its end
C4_Witness ==
    /\ pc = "loopTest"
    /\ ~InSetup
    /\ Len(calls) > 1
    /\ keys # {}
    /\ \E i \in DOMAIN calls : calls[i].fn = "glDrawElements"

\* the first iteration of the render loop is about to begin
FirstIterationBegins == pc = "loopTest" /\ InSetup

\* C5: when the first iteration of the render loop begins both offsets are 0.
C5_OffsetsStartAtZero ==
    FirstIterationBegins => (xOffset = 0 /\ yOffset = 0)

\* the speed of section 4.4, per tick: the base unit, doubled with the modifier
Speed == OffsetStep * (IF "shift" \in keys THEN 2 ELSE 1)

\* C6: a directional key held during a frame advances its axis by speed times
\* the time the frame took (stated for the right key, polled at "pollRight").
C6_OffsetAdvancesByElapsedTime ==
    [][(pc = "pollRight" /\ "right" \in keys) =>
          xOffset' = xOffset + Speed * elapsed]_vars

\* C7: while the frame driver is Paused no step changes the offsets.
C7_PausedFreezesOffsets ==
    [][paused => (xOffset' = xOffset /\ yOffset' = yOffset)]_vars

\* the positions of main() in program order
PcOrder ==
    <<"glfwInit", "createWindow", "makeCurrent", "loadGL", "clearColor",
      "genVAO", "bindVAO", "genVBO", "bindVBO", "uploadVBO", "genEBO",
      "bindEBO", "uploadEBO", "attribPointer", "enableAttrib",
      "loadVertexSrc", "loadFragmentSrc", "compileVertex", "compileFragment",
      "link", "loopTest", "clear", "pollLeft", "pollRight", "pollUp",
      "pollDown", "useProgram", "uploadX", "uploadY", "bindVAODraw", "draw",
      "swap", "pollEvents", "deleteVBO", "deleteVAO", "deleteProgram",
      "destroyWindow", "terminate", "done">>

PcIndex(p) == CHOOSE i \in DOMAIN PcOrder : PcOrder[i] = p

\* the positions after position p
After(p) == {PcOrder[i] : i \in (PcIndex(p) + 1)..Len(PcOrder)}
AfterCompileVertex == After("compileVertex")
AfterCompileFragment == After("compileFragment")
AfterLink == After("link")

\* main() has executed the statement at the position whose followers are given
\* (start-up did not abort)
Reached(after) == glLoaded /\ pc \in after

\* how many lines of cerr are the given one
Count(line) == Cardinality({i \in DOMAIN stderr : stderr[i] = line})

\* compileShader(source, shaderType) returned h: h names a shader of that type
\* holding that source, on which compilation was attempted, and cerr has a
\* compile diagnostic for the stage exactly when the compile status is failure
CompiledAndReturned(h, source, shaderType) ==
    /\ h \in DOMAIN shaders
    /\ shaders[h].type = shaderType
    /\ shaders[h].source = source
    /\ shaders[h].compileAttempted
    /\ Count(Diag("Shader compilation failed", shaderType)) =
          (IF shaders[h].compiled THEN 0 ELSE 1)

\* C8: each call of compileShader, whatever its source (the empty string of a
\* failed load included), creates a shader, attempts the compilation and
\* returns the handle; it writes one diagnostic when the compile status is
\* failure and none when it is success; main() goes on to its next statement
\* and, if it ends, ends with status 0.
C8_CompileNeverAborts ==
    /\ Reached(AfterCompileVertex) =>
          CompiledAndReturned(vertexShader, vertexSrc, "GL_VERTEX_SHADER")
    /\ Reached(AfterCompileFragment) =>
          CompiledAndReturned(fragmentShader, fragmentSrc, "GL_FRAGMENT_SHADER")
    /\ ~Reached(AfterCompileVertex) =>
          Count(Diag("Shader compilation failed", "GL_VERTEX_SHADER")) = 0
    /\ ~Reached(AfterCompileFragment) =>
          Count(Diag("Shader compilation failed", "GL_FRAGMENT_SHADER")) = 0
    /\ (Reached(AfterCompileVertex) /\ pc = "done") => exitStatus = 0

\* the vertex source could not be loaded and its compilation failed, the
\* fragment stage compiled, and main() is at the link
C8_Witness ==
    /\ pc = "link"
    /\ vertexSrc = ""
    /\ ~shaders[vertexShader].compiled
    /\ shaders[fragmentShader].compiled

\* C9: once linkProgram has returned, the handle it returned names a program
\* to which both stage handles were attached and on which the link was
\* attempted, whatever the compile status of the stages; cerr has a link
\* diagnostic exactly when the link status is failure.
C9_LinkAlwaysAttempted ==
    /\ Reached(AfterLink) =>
          /\ shaderProgram \in DOMAIN programs
          /\ programs[shaderProgram].attached = {vertexShader, fragmentShader}
          /\ programs[shaderProgram].linkAttempted
          /\ Count(Diag("Shader linking failed", "")) =
                (IF programs[shaderProgram].linked THEN 0 ELSE 1)
    /\ ~Reached(AfterLink) =>
          /\ programs = <<>>
          /\ Count(Diag("Shader linking failed", "")) = 0

\* linkProgram has returned after linking a vertex stage that failed to
\* compile with a fragment stage that compiled
C9_Witness ==
    /\ Reached(AfterLink)
    /\ ~shaders[vertexShader].compiled
    /\ shaders[fragmentShader].compiled
    /\ programs[shaderProgram].linkAttempted
    /\ ~programs[shaderProgram].linked

ShaderFailureLines ==
    {"Failed to open shader file", "Shader compilation failed",
     "Shader linking failed"}

\* a shader source was unreadable, or a compile or the link failed
ShaderFailure == \E i \in DOMAIN stderr : stderr[i].msg \in ShaderFailureLines

InLog(call) == \E i \in DOMAIN calls : calls[i] = call

\* after a shader failure: nothing was retried (at most two shaders, one
\* program, one diagnostic per load, compile and link); an iteration that has
\* run to its end activated the returned program and drew; and when main() has
\* returned it did so through the cleanup, with status 0
AfterShaderFailure ==
    ShaderFailure =>
        /\ Cardinality(DOMAIN shaders) <= 2
        /\ Cardinality(DOMAIN programs) <= 1
        /\ \A i, j \in DOMAIN stderr : stderr[i] = stderr[j] => i = j
        /\ (pc = "loopTest" /\ ~InSetup) =>
              /\ InLog(Call("glUseProgram", <<shaderProgram>>))
              /\ InLog(Call("glDrawElements", <<DrawCount>>))
        /\ pc = "done" =>
              /\ exitStatus = 0
              /\ window = "destroyed"
              /\ glfw = "terminated"
              /\ programs[shaderProgram].deleteStatus
              /\ VAO \notin DOMAIN vaos

\* C10: a shader failure neither stops the program nor is retried: the body of
\* the render loop is still entered, every iteration still activates the
\* returned program and draws, and once a close is requested the program
\* reaches the end of main() through the cleanup, with exit status 0.
C10_ShaderFailureNotFatal ==
    /\ []AfterShaderFailure
    /\ (ShaderFailure /\ InSetup) ~> (pc = "clear")
    /\ (ShaderFailure /\ shouldClose) ~> (pc = "done" /\ exitStatus = 0)

\* the program has returned 0 after a run in which a shader failure was
\* reported
C10_Witness ==
    /\ ShaderFailure
    /\ pc = "done"
    /\ exitStatus = 0
    /\ ~programs[shaderProgram].linked

\* ------------------------------------------------------------------- C11
\* positions of main() up to and including the loading of the GL functions
StartupPcs == {"glfwInit", "createWindow", "makeCurrent", "loadGL"}

\* main() has left the startup without the GL functions loaded: glfwInit,
\* glfwCreateWindow or gladLoadGL failed
StartupFailed == pc \notin StartupPcs /\ ~glLoaded

\* the library calls of the startup and of its failure paths
StartupCalls ==
    {"glfwInit", "glfwCreateWindow", "glfwSetFramebufferSizeCallback",
     "glfwMakeContextCurrent", "gladLoadGL", "glfwDestroyWindow",
     "glfwTerminate"}

\* C11: when glfwInit, window creation or GL function loading fails, main()
\* has returned a non-zero status, no vertex array, buffer, shader or program
\* object exists, the loop test was never evaluated, and no call other than
\* the startup calls (so no object creation and no draw) was made.
C11_StartupFailureAborts ==
    StartupFailed =>
        /\ pc = "done"
        /\ exitStatus # 0
        /\ vaos = <<>> /\ buffers = <<>> /\ shaders = <<>> /\ programs = <<>>
        /\ VAO = 0 /\ VBO = 0 /\ EBO = 0
        /\ vertexShader = 0 /\ fragmentShader = 0 /\ shaderProgram = 0
        /\ InSetup
        /\ \A i \in 1..Len(calls) : calls[i].fn \in StartupCalls

\* the GL functions failed to load after the window was created
C11_Witness ==
    /\ StartupFailed
    /\ window = "destroyed"
    /\ calls[Len(calls) - 2].fn = "gladLoadGL"

\* ------------------------------------------------------------------- C12
\* the offset the previous frame uploaded, which is the offset at the start of
\* this frame's input step
LastUploaded(name) == programs[shaderProgram].uniforms[name]

\* the input step of the frame is over
InputStepDone == pc = "useProgram"

\* C12 as stated: in a frame in which two opposing keys are both held, the
\* offset has at the end of the input step the value it had at its start.
C12_OpposingKeysCancel ==
    InputStepDone =>
        /\ ({"left", "right"} \subseteq keys => xOffset = LastUploaded("xOffset"))
        /\ ({"up", "down"} \subseteq keys => yOffset = LastUploaded("yOffset"))

\* C12, amended: in a frame in which two opposing keys are both held, both
\* deltas are applied one after the other in float arithmetic, and the offset
\* at the end of the input step differs from its value at the start by at most
\* the float spacing at |start| + 0.01f.
C12_OpposingKeysCancelUpToRounding ==
    InputStepDone =>
        /\ {"left", "right"} \subseteq keys =>
              LET start == LastUploaded("xOffset")
              IN  /\ xOffset = FloatAdd(FloatSub(start, OffsetStep), OffsetStep)
                  /\ Abs(xOffset - start) <= Ulp(Abs(start) + OffsetStep)
        /\ {"up", "down"} \subseteq keys =>
              LET start == LastUploaded("yOffset")
              IN  /\ yOffset = FloatSub(FloatAdd(start, OffsetStep), OffsetStep)
                  /\ Abs(yOffset - start) <= Ulp(Abs(start) + OffsetStep)

\* left and right were both held and the rounding of the two steps moved the
\* offset
C12_Witness ==
    /\ InputStepDone
    /\ {"left", "right"} \subseteq keys
    /\ xOffset # LastUploaded("xOffset")

\* ------------------------------------------------------------------- C13
\* main() is past the loop: in the cleanup, or returned from it
LoopExited ==
    \/ pc \in {"deleteVBO", "deleteVAO", "deleteProgram", "destroyWindow",
               "terminate"}
    \/ pc = "done" /\ glLoaded

\* the log starts at the loop test and holds no call of the loop body after it
NoBodyCallAfterTest ==
    /\ calls # <<>>
    /\ calls[1].fn = "glfwWindowShouldClose"
    /\ \A i \in 2..Len(calls) : StepOf(calls[i].fn) = 0

\* C13: a loop test that finds the close flag set goes to the resource release
\* and not into the body; past the loop the close flag is set and no clear,
\* draw, present or poll was made since the last loop test; and once a close is
\* requested main() eventually returns 0.
C13_LoopTerminatesOnClose ==
    /\ [][(pc = "loopTest" /\ shouldClose) => pc' = "deleteVBO"]_vars
    /\ [](LoopExited => shouldClose /\ NoBodyCallAfterTest)
    /\ (shouldClose ~> (pc = "done" /\ exitStatus = 0 /\ glfw = "terminated"))

\* main() returned after a close request ended the loop
C13_Witness ==
    /\ pc = "done"
    /\ shouldClose
    /\ exitStatus = 0
    /\ NoBodyCallAfterTest

\* ------------------------------------------------------------------- C14
\* the places of the log where one of the given calls was made
Where(fns) == {i \in DOMAIN calls : calls[i].fn \in fns}

CompileCalls ==
    {"glCreateShader", "glShaderSource", "glCompileShader", "glGetShaderiv",
     "glGetShaderInfoLog"}
LinkCalls ==
    {"glCreateProgram", "glAttachShader", "glLinkProgram", "glGetProgramiv",
     "glGetProgramInfoLog"}
UseCalls == {"glUseProgram", "glGetUniformLocation", "glDrawElements"}

\* C14: every call of the link step comes after the calls of both stage
\* compilations, status query included; a call that activates, queries or draws
\* with the program is made only after linkProgram has attempted the link and
\* returned; and the handle activated is always the program handle, never a
\* stage handle, the stage handles being passed to the linker only as the
\* shaders to attach.
C14_CompileLinkUseOrder ==
    /\ \A j \in Where(LinkCalls) :
          /\ \A i \in Where(CompileCalls) : i < j
          /\ Cardinality(Where({"glCompileShader"})) = 2
          /\ Cardinality(Where({"glGetShaderiv"})) = 2
    /\ \A i \in Where({"glAttachShader"}) :
          /\ calls[i].args[1] \notin DOMAIN shaders
          /\ calls[i].args[2] \in {vertexShader, fragmentShader}
          /\ shaders[calls[i].args[2]].compileAttempted
    /\ \A i \in Where(UseCalls) :
          /\ Reached(AfterLink)
          /\ Where(LinkCalls) = {}
          /\ shaderProgram \in DOMAIN programs
          /\ programs[shaderProgram].linkAttempted
          /\ calls[i].fn # "glDrawElements" => calls[i].args = <<shaderProgram>>
    /\ currentProgram \notin DOMAIN shaders
    /\ shaderProgram \notin DOMAIN shaders
    /\ currentProgram # 0 => currentProgram = shaderProgram /\ Usable(shaderProgram)

\* a draw was made with the linked program active
C14_Witness ==
    /\ Where({"glDrawElements"}) # {}
    /\ currentProgram = shaderProgram
    /\ Usable(shaderProgram)
    /\ shaders[vertexShader].compiled /\ shaders[fragmentShader].compiled

\* ------------------------------------------------------------------- C15
\* the key polls of the frame
KeyPollCalls ==
    {"glfwGetKey(GLFW_KEY_LEFT)", "glfwGetKey(GLFW_KEY_RIGHT)",
     "glfwGetKey(GLFW_KEY_UP)", "glfwGetKey(GLFW_KEY_DOWN)"}

\* the frame's uploads are done: main() is between the last glUniform1f and
\* the next loop test
UploadsDone == pc \in {"bindVAODraw", "draw", "swap", "pollEvents"}

\* C15: in every frame, between the key polls and the draw, the uniform
\* locations are looked up anew on shaderProgram (one lookup per upload, none
\* kept from an earlier frame), and when the program is linked the uniforms it
\* holds from the uploads on to the end of the frame, the draw included, are
\* the offsets as this frame's input step left them.
C15_FreshUniformsAtDraw ==
    /\ UploadsDone =>
          /\ Cardinality(Where({"glGetUniformLocation"})) = 2
          /\ Cardinality(Where({"glUniform1f"})) = 2
          /\ Cardinality(Where(KeyPollCalls)) = 4
          /\ \A u \in Where({"glGetUniformLocation"}) :
                /\ calls[u].args = <<shaderProgram>>
                /\ calls[u + 1].fn = "glUniform1f"
                /\ \A k \in Where(KeyPollCalls) : k < u
          /\ Usable(shaderProgram) =>
                /\ currentProgram = shaderProgram
                /\ programs[shaderProgram].uniforms =
                       [xOffset |-> xOffset, yOffset |-> yOffset]
    /\ \A d \in Where({"glDrawElements"}) :
          /\ Cardinality(Where({"glUniform1f"})) = 2
          /\ \A u \in Where({"glUniform1f"}) : u < d

\* a frame in which the left key moved the offset has drawn with the linked
\* program
C15_Witness ==
    /\ pc = "swap"
    /\ Usable(shaderProgram)
    /\ keys \cap {"left", "right"} = {"left"}
    /\ programs[shaderProgram].uniforms.xOffset = xOffset
    /\ xOffset # 0

\* ------------------------------------------------------------------- C16
\* The model transform of the specification, section 4.5.  A product
\* translate * rotate-about-Z * scale-X/Y is kept as its factors: the
\* translation, the angle in radians (a whole number of clock ticks) and twice
\* the scale factor.  Two such products with angles a whole number of radians
\* apart are the same matrix only when their factors are the same.
Identity == [tx |-> 0, ty |-> 0, angle |-> 0, twiceScale |-> 2]
\* m * translation(x, y, 0), for m a pure translation
translate(m, x, y) == [m EXCEPT !.tx = @ + x, !.ty = @ + y]
\* m * rotation about Z by angle
rotate(m, angle) == [m EXCEPT !.angle = @ + angle]
\* m * scale(twiceFactor / 2, twiceFactor / 2, 1)
scale(m, twiceFactor) == [m EXCEPT !.twiceScale = (@ * twiceFactor) \div 2]

compose(offsetX, offsetY, elapsedSeconds, scaleUp) ==
    LET translated == translate(Identity, offsetX, offsetY)
        rotated == rotate(translated, elapsedSeconds)
    IN  IF scaleUp THEN scale(rotated, 3) ELSE rotated

\* the transform main() hands to the shaders of the current program: the two
\* float uniforms xOffset and yOffset, a translation
UploadedTransform ==
    [tx |-> programs[currentProgram].uniforms.xOffset,
     ty |-> programs[currentProgram].uniforms.yOffset,
     angle |-> 0, twiceScale |-> 2]

\* this frame's draw call was made with the linked program
DrawnWithProgram ==
    /\ pc = "swap"
    /\ Usable(shaderProgram)
    /\ currentProgram = shaderProgram

\* C16: the transform a frame draws with is compose(offsetX, offsetY,
\* elapsedSeconds, scaleUp): the translation by the offsets, then the rotation
\* by the time elapsed since the start, then the scale by 1.5 when scaleUp is
\* set.  main() reads no clock and keeps no scale flag, so the formula leaves
\* both open: the time since the start is any number of ticks from the time
\* the previous frame took upwards, the flag is either value.
C16_TransformComposed ==
    DrawnWithProgram =>
        \E elapsedSeconds \in elapsed..MaxElapsed, scaleUp \in BOOLEAN :
            UploadedTransform = compose(xOffset, yOffset, elapsedSeconds, scaleUp)

\* ------------------------------------------------------------------- C17
\* the index buffer and the vertex buffer the vertex array VAO draws from
IndexData == buffers[vaos[VAO].ebo].data
VertexData == buffers[vaos[VAO].attrib0.buffer].data

\* the number of vertices the vertex buffer holds: its size in bytes
\* (sizeof(float) = 4 per entry) over the stride of attribute 0
vertexCount == (4 * Len(VertexData)) \div vaos[VAO].attrib0.stride

\* the geometry is complete: both buffers are uploaded and the layout declared
GeometryReady ==
    /\ VAO \in DOMAIN vaos
    /\ vaos[VAO].attrib0.declared
    /\ vaos[VAO].ebo \in DOMAIN buffers
    /\ vaos[VAO].attrib0.buffer \in DOMAIN buffers
    /\ buffers[vaos[VAO].ebo].uploaded
    /\ buffers[vaos[VAO].attrib0.buffer].uploaded

\* C17: once the geometry is set up, every index in the index buffer is at
\* least 0 and less than the number of 2-float vertices in the vertex buffer;
\* and every glDrawElements call is made with the geometry in place, on the
\* vertex array VAO, with a count equal to the number of indices uploaded.
C17_IndicesInRangeAndAllDrawn ==
    /\ GeometryReady =>
          /\ Len(VertexData) % AttribSize = 0
          /\ \A i \in DOMAIN IndexData :
                0 <= IndexData[i] /\ IndexData[i] < vertexCount
    /\ \A d \in Where({"glDrawElements"}) :
          /\ GeometryReady
          /\ boundVAO = VAO
          /\ calls[d].args = <<Len(IndexData)>>

\* a draw call was made over the uploaded indices
C17_Witness ==
    /\ pc = "swap"
    /\ GeometryReady
    /\ Where({"glDrawElements"}) # {}
    /\ Len(IndexData) = DrawCount

\* ------------------------------------------------------------------- C18
\* C18: a step changes xOffset only when it is the poll of the left key with
\* left held or the poll of the right key with right held, and yOffset only
\* when it is the poll of the up key with up held or of the down key with
\* down held; so a frame with no directional key held changes neither, and no
\* other step of the loop body (or of the program) writes the offsets.
C18_OffsetsWrittenByOwnKeysOnly ==
    [][/\ xOffset' # xOffset =>
             \/ pc = "pollLeft" /\ "left" \in keys
             \/ pc = "pollRight" /\ "right" \in keys
       /\ yOffset' # yOffset =>
             \/ pc = "pollUp" /\ "up" \in keys
             \/ pc = "pollDown" /\ "down" \in keys]_vars

\* the input step of a frame with only the left key held is over: xOffset is
\* one step below the value the previous frame uploaded, yOffset is that value
C18_Witness ==
    /\ InputStepDone
    /\ Usable(shaderProgram)
    /\ keys = {"left"}
    /\ xOffset = FloatSub(LastUploaded("xOffset"), OffsetStep)
    /\ xOffset # LastUploaded("xOffset")
    /\ yOffset = LastUploaded("yOffset")

\* ------------------------------------------------------------------- C19
\* the calls glfwTerminate and glfwDestroyWindow of the log
TerminateCalls == Where({"glfwTerminate"})
DestroyCalls == Where({"glfwDestroyWindow"})

\* the log ends with glfwDestroyWindow followed by glfwTerminate, each made once
DestroyedThenTerminated ==
    /\ Len(calls) >= 2
    /\ DestroyCalls = {Len(calls) - 1}
    /\ TerminateCalls = {Len(calls)}
    /\ window = "destroyed"
    /\ glfw = "terminated"

\* C19: when main() has returned: after a failed glfwInit neither
\* glfwTerminate nor glfwDestroyWindow was called; after a failed window
\* creation glfwTerminate was the last call and no window was destroyed; after
\* a failed GL function loading, and on the normal exit, glfwDestroyWindow and
\* then glfwTerminate were the last two calls.
C19_ExitPathsReleaseWindowing ==
    pc = "done" =>
        IF InSetup /\ Where({"glfwCreateWindow"}) = {}
        THEN /\ TerminateCalls = {} /\ DestroyCalls = {}
             /\ glfw = "uninit" /\ window = "none"
        ELSE IF InSetup /\ Where({"gladLoadGL"}) = {}
        THEN /\ TerminateCalls = {Len(calls)} /\ DestroyCalls = {}
             /\ glfw = "terminated" /\ window = "none"
        ELSE DestroyedThenTerminated

\* main() returned after glfwCreateWindow failed
C19_Witness ==
    /\ pc = "done"
    /\ InSetup
    /\ Where({"glfwCreateWindow"}) # {}
    /\ Where({"gladLoadGL"}) = {}
    /\ glfw = "terminated"

\* ------------------------------------------------------------------- C20
\* calls that create, fill, lay out or delete a buffer, a vertex array or a
\* program
ResourceWriteCalls ==
    {"glGenVertexArrays", "glGenBuffers", "glBindBuffer", "glBufferData",
     "glVertexAttribPointer", "glEnableVertexAttribArray", "glCreateProgram",
     "glAttachShader", "glLinkProgram", "glDeleteBuffers",
     "glDeleteVertexArrays", "glDeleteProgram"}
DeleteCalls == {"glDeleteBuffers", "glDeleteVertexArrays", "glDeleteProgram"}
ShutdownCalls == DeleteCalls \cup {"glfwDestroyWindow", "glfwTerminate"}

\* the objects a draw uses are those the setup created and left in place
DrawsFromSetupObjects ==
    /\ GeometryReady
    /\ boundVAO = VAO
    /\ vaos[VAO].ebo = EBO
    /\ vaos[VAO].attrib0.buffer = VBO
    /\ buffers[VBO].data = vertices
    /\ buffers[EBO].data = indices
    /\ shaderProgram \in DOMAIN programs
    /\ ~programs[shaderProgram].deleteStatus
    /\ currentProgram \in {0, shaderProgram}

\* C20: no step taken inside the loop changes a buffer, a vertex array, the
\* handles, or which programs exist, are linked or are deleted; every draw is
\* made with the vertex array, the buffers and the program the setup created,
\* none of them deleted; no call of an iteration creates, fills, lays out or
\* deletes a resource; deletions are made only after the loop has exited, each
\* handle at most once; and after the first deletion only deletions and the
\* window shutdown follow.
C20_ResourcesStableInLoop ==
    /\ [][InLoop =>
            /\ vaos' = vaos
            /\ buffers' = buffers
            /\ <<VAO, VBO, EBO, shaderProgram>>' = <<VAO, VBO, EBO, shaderProgram>>
            /\ DOMAIN programs' = DOMAIN programs
            /\ \A p \in DOMAIN programs :
                  /\ programs'[p].linked = programs[p].linked
                  /\ programs'[p].attached = programs[p].attached
                  /\ programs'[p].deleteStatus = programs[p].deleteStatus]_vars
    /\ [](/\ \A d \in Where({"glDrawElements"}) : DrawsFromSetupObjects
          /\ InLoop /\ ~InSetup => Where(ResourceWriteCalls) = {}
          /\ Where(DeleteCalls) # {} => LoopExited
          /\ \A i \in Where(DeleteCalls) :
                /\ \A j \in (i + 1)..Len(calls) :
                      calls[j].fn \in ShutdownCalls /\ calls[j] # calls[i]
                /\ calls[i] \in {Call("glDeleteBuffers", <<VBO>>),
                                 Call("glDeleteVertexArrays", <<VAO>>),
                                 Call("glDeleteProgram", <<shaderProgram>>)})

\* frames were drawn, the loop has exited and the cleanup has made its three
\* deletions
C20_Witness ==
    /\ pc = "destroyWindow"
    /\ Cardinality(Where(DeleteCalls)) = 3
    /\ VBO \notin DOMAIN buffers
    /\ VAO \notin DOMAIN vaos
    /\ programs[shaderProgram].uniforms.xOffset # 0
====
